---------------------------- MODULE Spec2Model ----------------------------
(***************************************************************************)
(* Model of github.com/nokia/restful:                                      *)
(*   - package tracer (src/unnamed/part_000): trace context resolution     *)
(*   - LambdaWrap     (src/mux_lambda_wrapper.go): handler adaptation      *)
(* The two components do not call each other; each has its own             *)
(* specification (SpecTracer, SpecLambda) over its own variables.          *)
(***************************************************************************)
EXTENDS Integers, Sequences, FiniteSets, TLC

VARIABLES
    \* ---- package tracer ----
    OtelEnabled,   \* var OtelEnabled (part_000:32)
    propagator,    \* otel's global text map propagator: "noop" | "composite"
    tracer,        \* the *Tracer the caller holds (NilTracer before any is created)
    created,       \* history: how that tracer was created
    tlast,         \* the last tracer operation and what it returned
    \* ---- LambdaWrap ----
    LambdaMaxBytesToParse,  \* var LambdaMaxBytesToParse (mux_lambda_wrapper.go:18)
    LambdaValidator,        \* var LambdaValidator (mux_lambda_wrapper.go:27)
    pc,            \* position of the program / of the request being served
    f,             \* the value given to LambdaWrap
    wrapped,       \* TRUE iff LambdaWrap returned its own closure
    req,           \* the request being served (body, context)
    lambdaStatus,  \* Status of the *lambda.Lambda carried by the synthesized context
    params,        \* params as assembled by lambdaGetParams
    res,           \* the values returned by reflect.Value.Call
    sent,          \* the SendResp calls made for the request, in order
    hist           \* history of the request: counters of what has happened

tracerVars == <<OtelEnabled, propagator, tracer, created, tlast>>
lambdaVars == <<LambdaMaxBytesToParse, LambdaValidator, pc, f, wrapped, req,
                lambdaStatus, params, res, sent, hist>>
vars == <<tracerVars, lambdaVars>>

(***************************************************************************)
(* Bounds                                                                  *)
(***************************************************************************)
MaxId == 2          \* trace / span identifiers are 1..MaxId
MaxBodyLen == 2     \* request bodies are 0..MaxBodyLen bytes long
MaxExtraIn == 1     \* declared parameters beyond (context, body)
MaxOut == 3         \* declared return values

(***************************************************************************)
(*                            package tracer                               *)
(***************************************************************************)

\* A header value: 0 = header absent, -1 = present but malformed,
\* k > 0 = well-formed, carrying trace id k and span id k.
HeaderValues == -1 .. MaxId
Requests == [b3 : HeaderValues, tp : HeaderValues]
EmptyHeaders == [b3 |-> 0, tp |-> 0]
HeaderInputs == {EmptyHeaders, [b3 |-> MaxId, tp |-> MaxId]}

\* tracedata.TraceData values.  NilIface is the nil interface; NilData(enc)
\* is a nil pointer of the concrete type of encoding enc held in the interface.
NilIface == [enc |-> "none", nil |-> TRUE, traceID |-> 0, spanID |-> 0, received |-> FALSE]
NilData(enc) == [enc |-> enc, nil |-> TRUE, traceID |-> 0, spanID |-> 0, received |-> FALSE]
Data(enc, tid, sid, rcv) ==
    [enc |-> enc, nil |-> FALSE, traceID |-> tid, spanID |-> sid, received |-> rcv]

IsNilInterface(td) == td.enc = "none"        \* traceData == nil
IsNil(td) == td.nil                          \* reflect.ValueOf(traceData).IsNil()

\* *Tracer values
NilTracer == [isNil |-> TRUE, traceData |-> NilIface, received |-> FALSE]
MkTracer(td, rcv) == [isNil |-> FALSE, traceData |-> td, received |-> rcv]

\* ---- the three encodings (packages traceb3, traceparent, traceotel) ----
traceb3_NewFromRequest(r) ==
    IF r.b3 > 0 THEN Data("b3", r.b3, r.b3, TRUE) ELSE NilData("b3")

traceparent_NewFromRequest(r) ==
    IF r.tp > 0 THEN Data("traceparent", r.tp, r.tp, TRUE) ELSE NilData("traceparent")

\* The SDK extracts with the global propagator: W3C and B3 once SetOTel has
\* installed the composite propagator, nothing with the default one.
traceotel_NewFromRequest(r) ==
    IF propagator = "composite" /\ r.tp > 0 THEN Data("otel", r.tp, r.tp, TRUE)
    ELSE IF propagator = "composite" /\ r.b3 > 0 THEN Data("otel", r.b3, r.b3, TRUE)
    ELSE NilData("otel")

traceb3_NewRandom(tid, sid) == Data("b3", tid, sid, FALSE)
traceotel_NewRandom(tid, sid) == Data("otel", tid, sid, FALSE)

\* TraceData.SetHeader: the wire encoding of td written into headers.
TraceData_SetHeader(td, headers) ==
    CASE td.enc = "b3"          -> [headers EXCEPT !.b3 = td.traceID]
      [] td.enc = "traceparent" -> [headers EXCEPT !.tp = td.traceID]
      [] td.enc = "otel"        -> [b3 |-> td.traceID, tp |-> td.traceID]
      [] OTHER                  -> headers

\* TraceData.Span: a child span (child = its new span id) attached to a copy
\* of the request, and the log string.
TraceData_Span(td, r, child) ==
    [req |-> TraceData_SetHeader(td, r),
     log |-> [enc |-> td.enc, traceID |-> td.traceID, spanID |-> child]]

TraceData_IsReceived(td) == td.received
TraceData_TraceID(td) == [enc |-> td.enc, id |-> td.traceID]
TraceData_SpanID(td) == [enc |-> td.enc, id |-> td.spanID]

\* ---- package tracer proper ----

NewFromRequest_TraceparentFirst(r) ==
    LET tp == traceparent_NewFromRequest(r)
        traceData == IF OtelEnabled THEN traceotel_NewFromRequest(r)
                     ELSE IF IsNil(tp) THEN traceb3_NewFromRequest(r) ELSE tp
    IN  [t |-> IF IsNilInterface(traceData) \/ IsNil(traceData)
               THEN NilTracer ELSE MkTracer(traceData, TRUE),
         consulted |-> IF OtelEnabled THEN <<"otel">>
                       ELSE IF IsNil(tp) THEN <<"traceparent", "b3">>
                       ELSE <<"traceparent">>]

\* NewFromRequest: t is the *Tracer returned, consulted the parsers called.
NewFromRequest(r) ==
    LET b3 == traceb3_NewFromRequest(r)
        traceData == IF OtelEnabled THEN traceotel_NewFromRequest(r)
                     ELSE IF IsNil(b3) THEN traceparent_NewFromRequest(r) ELSE b3
    IN  [t |-> IF IsNilInterface(traceData) \/ IsNil(traceData)
               THEN NilTracer ELSE MkTracer(traceData, TRUE),
         consulted |-> IF OtelEnabled THEN <<"otel">>
                       ELSE IF IsNil(b3) THEN <<"b3", "traceparent">>
                       ELSE <<"b3">>]

NewRandom(tid, sid) ==
    LET randomTraceData == IF OtelEnabled THEN traceotel_NewRandom(tid, sid)
                           ELSE traceb3_NewRandom(tid, sid)
    IN  MkTracer(randomTraceData, FALSE)

NewFromRequestOrRandom_NoFallback(r, tid, sid) == NewFromRequest(r).t

NewFromRequestOrRandom(r, tid, sid) ==
    LET t == NewFromRequest(r).t
    IN  IF ~t.isNil THEN t ELSE NewRandom(tid, sid)

\* A tracer that picks the encoding from the flag's current value.
Tracer_SetHeader_ByFlag(t, headers) ==
    TraceData_SetHeader([t.traceData EXCEPT !.enc = IF OtelEnabled THEN "otel" ELSE "b3"],
                        headers)

Tracer_SetHeader(t, headers) == TraceData_SetHeader(t.traceData, headers)
Tracer_Span(t, r, child) == TraceData_Span(t.traceData, r, child)
Tracer_IsReceived(t) == TraceData_IsReceived(t.traceData)
Tracer_TraceID(t) == TraceData_TraceID(t.traceData)
Tracer_SpanID(t) == TraceData_SpanID(t.traceData)

NoOp == [op |-> "none", flag |-> FALSE, r |-> EmptyHeaders, t |-> NilTracer,
         fromReq |-> NilTracer, consulted |-> <<>>, out |-> <<>>]

NotCreated == [flag |-> FALSE, origin |-> "none", r |-> EmptyHeaders,
               traceID |-> 0, spanID |-> 0]

\* The caller keeps a newly created tracer (if any) in place of the old one.
Keep(t, origin, r) ==
    IF t.isNil
    THEN UNCHANGED <<tracer, created>>
    ELSE /\ tracer' = t
         /\ created' = [flag |-> OtelEnabled, origin |-> origin, r |-> r,
                        traceID |-> t.traceData.traceID,
                        spanID |-> t.traceData.spanID]

\* SetOTel(enabled, tp)
SetOTel(enabled) ==
    /\ OtelEnabled' = enabled
    /\ propagator' = IF enabled THEN "composite" ELSE propagator
    /\ tlast' = NoOp
    /\ UNCHANGED <<tracer, created, lambdaVars>>

\* OtelEnabled = enabled ("You may set that directly")
AssignOtelEnabled(enabled) ==
    /\ OtelEnabled' = enabled
    /\ tlast' = NoOp
    /\ UNCHANGED <<propagator, tracer, created, lambdaVars>>

CallNewFromRequest(r) ==
    /\ LET got == NewFromRequest(r)
       IN  /\ tlast' = [NoOp EXCEPT !.op = "NewFromRequest", !.flag = OtelEnabled, !.r = r,
                                    !.t = got.t, !.fromReq = got.t,
                                    !.consulted = got.consulted]
           /\ Keep(got.t, "request", r)
    /\ UNCHANGED <<OtelEnabled, propagator, lambdaVars>>

CallNewFromRequestOrRandom(r, tid, sid) ==
    /\ LET t == NewFromRequestOrRandom(r, tid, sid)
           got == NewFromRequest(r)
       IN  /\ tlast' = [NoOp EXCEPT !.op = "NewFromRequestOrRandom", !.flag = OtelEnabled,
                                    !.r = r, !.t = t, !.fromReq = got.t,
                                    !.consulted = got.consulted]
           /\ Keep(t, IF got.t.isNil THEN "random" ELSE "request", r)
    /\ UNCHANGED <<OtelEnabled, propagator, lambdaVars>>

CallNewRandom(tid, sid) ==
    /\ LET t == NewRandom(tid, sid)
       IN  /\ tlast' = [NoOp EXCEPT !.op = "NewRandom", !.flag = OtelEnabled, !.t = t]
           /\ Keep(t, "random", EmptyHeaders)
    /\ UNCHANGED <<OtelEnabled, propagator, lambdaVars>>

CallSetHeader(headers) ==
    /\ ~tracer.isNil
    /\ tlast' = [NoOp EXCEPT !.op = "SetHeader", !.flag = OtelEnabled,
                             !.r = headers, !.out = Tracer_SetHeader(tracer, headers)]
    /\ UNCHANGED <<OtelEnabled, propagator, tracer, created, lambdaVars>>

CallSpan(r, child) ==
    /\ ~tracer.isNil
    /\ tlast' = [NoOp EXCEPT !.op = "Span", !.flag = OtelEnabled, !.r = r,
                             !.out = Tracer_Span(tracer, r, child)]
    /\ UNCHANGED <<OtelEnabled, propagator, tracer, created, lambdaVars>>

CallIsReceived ==
    /\ ~tracer.isNil
    /\ tlast' = [NoOp EXCEPT !.op = "IsReceived", !.flag = OtelEnabled,
                             !.out = Tracer_IsReceived(tracer)]
    /\ UNCHANGED <<OtelEnabled, propagator, tracer, created, lambdaVars>>

CallTraceID ==
    /\ ~tracer.isNil
    /\ tlast' = [NoOp EXCEPT !.op = "TraceID", !.flag = OtelEnabled,
                             !.out = Tracer_TraceID(tracer)]
    /\ UNCHANGED <<OtelEnabled, propagator, tracer, created, lambdaVars>>

CallSpanID ==
    /\ ~tracer.isNil
    /\ tlast' = [NoOp EXCEPT !.op = "SpanID", !.flag = OtelEnabled,
                             !.out = Tracer_SpanID(tracer)]
    /\ UNCHANGED <<OtelEnabled, propagator, tracer, created, lambdaVars>>

LambdaIdle ==
    /\ LambdaMaxBytesToParse = 0
    /\ LambdaValidator = TRUE
    /\ pc = "start"
    /\ f = [kind |-> "none", in |-> <<>>, out |-> <<>>]
    /\ wrapped = FALSE
    /\ req = [body |-> [len |-> 0, wellFormed |-> TRUE, valid |-> TRUE], ctx |-> "background"]
    /\ lambdaStatus = 0
    /\ params = <<>>
    /\ res = <<>>
    /\ sent = <<>>
    /\ hist = [ctxSynth |-> 0, decoded |-> 0, validated |-> 0, invoked |-> 0,
               returned |-> 0, native |-> 0, reqDataIdx |-> -1, failure |-> "none"]

TracerInit ==
    /\ OtelEnabled \in BOOLEAN     \* from the OTEL_ environment variables
    /\ propagator = "noop"
    /\ tracer = NilTracer
    /\ created = NotCreated
    /\ tlast = NoOp

InitTracer == TracerInit /\ LambdaIdle

NextTracer ==
    \/ \E enabled \in BOOLEAN : SetOTel(enabled)
    \/ \E enabled \in BOOLEAN : AssignOtelEnabled(enabled)
    \/ \E r \in Requests : CallNewFromRequest(r)
    \/ \E r \in Requests, tid \in 1 .. MaxId, sid \in 1 .. MaxId :
          CallNewFromRequestOrRandom(r, tid, sid)
    \/ \E tid \in 1 .. MaxId, sid \in 1 .. MaxId : CallNewRandom(tid, sid)
    \/ \E h \in HeaderInputs : CallSetHeader(h)
    \/ \E h \in HeaderInputs, child \in 1 .. MaxId : CallSpan(h, child)
    \/ CallIsReceived
    \/ CallTraceID
    \/ CallSpanID

SpecTracer == InitTracer /\ [][NextTracer]_vars


(***************************************************************************)
(*                 LambdaWrap (src/mux_lambda_wrapper.go)                  *)
(***************************************************************************)

StatusUnprocessableEntity == 422

\* ---- types (reflect.Type) ----
\* Parameter types: "ctx" implements context.Context; the others are body
\* types.  Result types: "error", a plain type "T", a plain type "E" that
\* implements error, and pointers "*T", "**T".
BodyTypes == {"struct", "*struct", "**struct", "int"}

Implements_contextType(t) == t = "ctx"
IsPtrType(t) == t \in {"*struct", "**struct"}
ElemType(t) == IF t = "**struct" THEN "*struct" ELSE "struct"
KindOf(t) ==
    CASE t = "struct" -> "Struct"
      [] IsPtrType(t) -> "Ptr"
      [] t = "int"    -> "Int"
      [] OTHER        -> "Interface"

\* Declared parameter lists: [context] [body] and up to MaxExtraIn more.
Extras == UNION {[1 .. n -> {"int"}] : n \in 0 .. MaxExtraIn}
InShapes ==
    {<<>>, <<"ctx">>}
    \cup {<<b>> \o e : b \in BodyTypes, e \in Extras}
    \cup {<<"ctx", b>> \o e : b \in BodyTypes, e \in Extras}

\* Declared result lists, up to MaxOut long.
OutTypeAt(i) ==
    IF i = 1 THEN {"error", "T", "E", "*T", "**T"}
    ELSE IF i = 2 THEN {"error", "T"}
    ELSE {"T"}
OutShapes ==
    UNION {{o \in [1 .. n -> {"error", "T", "E", "*T", "**T"}] :
              \A i \in 1 .. n : o[i] \in OutTypeAt(i)} : n \in 0 .. MaxOut}

NativeIn == <<"ResponseWriter", "*Request">>
FuncValues ==
    {[kind |-> "nonfunc", in |-> <<>>, out |-> <<>>],
     [kind |-> "native", in |-> NativeIn, out |-> <<>>],
     [kind |-> "handlerFunc", in |-> NativeIn, out |-> <<>>]}
    \cup [kind : {"func"}, in : InShapes, out : OutShapes]

\* ---- values (reflect.Value / any) ----
GoNil == [kind |-> "nil", isNil |-> TRUE, isErr |-> FALSE, depth |-> 0, id |-> "nil"]
MkValue(k, n, e, d, id) == [kind |-> k, isNil |-> n, isErr |-> e, depth |-> d, id |-> id]

\* The reflect.Values a function can return for a declared result type.
ValuesOf(t) ==
    CASE t = "error" -> {MkValue("Interface", TRUE, FALSE, 0, "nil"),
                         MkValue("Interface", FALSE, TRUE, 0, "e")}
      [] t = "T"     -> {MkValue("Struct", FALSE, FALSE, 0, "v")}
      [] t = "E"     -> {MkValue("Struct", FALSE, TRUE, 0, "e")}
      [] t = "*T"    -> {MkValue("Ptr", TRUE, FALSE, 1, "v"),
                         MkValue("Ptr", FALSE, FALSE, 1, "v")}
      [] t = "**T"   -> {MkValue("Ptr", TRUE, FALSE, 2, "v"),
                         MkValue("Ptr", FALSE, FALSE, 2, "v")}

\* The lists of reflect.Values Call can return for the declared results out
\* (results beyond the second are of type "T", which has one value).
ResultsOf(out) ==
    IF Len(out) = 0 THEN {<<>>}
    ELSE {[i \in 1 .. Len(out) |->
              IF i = 1 THEN a ELSE IF i = 2 THEN b ELSE CHOOSE v \in ValuesOf(out[i]) : TRUE] :
            a \in ValuesOf(out[1]),
            b \in IF Len(out) >= 2 THEN ValuesOf(out[2]) ELSE {<<>>}}

\* reflect.Value.Interface(): a nil interface yields nil, anything else the
\* dynamic value.
Interface(v) ==
    IF v.kind = "Interface" /\ v.isNil THEN GoNil
    ELSE IF v.kind = "Interface" THEN [v EXCEPT !.kind = "Struct"]
    ELSE v

\* res.Interface().(error): ok?
IsError(v) == Interface(v) # GoNil /\ v.isErr

\* reflect.Value.Elem() of a non-nil pointer
Elem(v) ==
    [v EXCEPT !.depth = v.depth - 1,
              !.kind = IF v.depth - 1 = 0 THEN "Struct" ELSE "Ptr"]

\* ---- errors ----
NilError == [kind |-> "nil"]
UserError(v) == [kind |-> "user", value |-> Interface(v)]
NewError(err, status) == [kind |-> "restful", cause |-> err, status |-> status]

\* ---- collaborators ----
Bodies == [len : 0 .. MaxBodyLen, wellFormed : BOOLEAN, valid : BOOLEAN]
NoLambda == [isNil |-> TRUE, Status |-> 0]

\* L(ctx): the *lambda.Lambda of the context, nil when it carries none
L(ctx) ==
    IF ctx = "lambda" THEN [isNil |-> FALSE, Status |-> lambdaStatus] ELSE NoLambda

\* GetRequestData(r, maxBytes, data)
GetRequestData(r, maxBytes) ==
    IF maxBytes > 0 /\ r.body.len > maxBytes THEN [kind |-> "decode", why |-> "too large"]
    ELSE IF r.body.len > 0 /\ ~r.body.wellFormed THEN [kind |-> "decode", why |-> "malformed"]
    ELSE NilError

\* validate.Struct(data)
validate_Struct(r) ==
    IF r.body.valid THEN NilError ELSE [kind |-> "validation"]

\* ---- result handling ----
lambdaHandleRes0(l) ==
    IF ~l.isNil /\ l.Status > 0 THEN NewError(NilError, l.Status) ELSE NilError

lambdaHandleRes1(l, r1) ==
    IF IsError(r1) THEN [data |-> GoNil, err |-> UserError(r1)]
    ELSE IF ~l.isNil /\ l.Status > 0
         THEN [data |-> Interface(r1), err |-> NewError(NilError, l.Status)]
         ELSE [data |-> Interface(r1), err |-> NilError]

lambdaGetStatus_OverrideFirst(l, r2) ==
    IF ~l.isNil /\ l.Status > 0 THEN NewError(NilError, l.Status)
    ELSE IF IsError(r2) THEN UserError(r2)
    ELSE NilError

lambdaGetStatus(l, r2) ==
    IF IsError(r2) THEN UserError(r2)
    ELSE IF ~l.isNil /\ l.Status > 0 THEN NewError(NilError, l.Status)
    ELSE NilError

lambdaHandleRes2_NoUnwrap(l, rs) ==
    [data |-> Interface(rs[1]), err |-> lambdaGetStatus(l, rs[2])]

lambdaHandleRes2(l, rs) ==
    LET err == lambdaGetStatus(l, rs[2])
    IN  IF rs[1].kind = "Ptr"
        THEN IF rs[1].isNil
             THEN [data |-> GoNil, err |-> err]
             ELSE [data |-> Interface(Elem(rs[1])), err |-> err]
        ELSE [data |-> Interface(rs[1]), err |-> err]

\* lambdaHandleRes: the arguments of its SendResp call
lambdaHandleRes(r, rs) ==
    IF Len(rs) <= 0 THEN [data |-> GoNil, err |-> lambdaHandleRes0(L(r.ctx))]
    ELSE IF Len(rs) = 1 THEN lambdaHandleRes1(L(r.ctx), rs[1])
    ELSE lambdaHandleRes2(L(r.ctx), rs)

\* ---- argument assembly ----
ZeroValue == [kind |-> "zero", type |-> "none"]
CtxValue == [kind |-> "ctx", type |-> "ctx"]
BodyValue(t) == [kind |-> "body", type |-> t]

\* The type reqDataInterface points to.
DecodeTargetType(t) == IF KindOf(t) = "Ptr" THEN ElemType(t) ELSE t

GetParamsResult(ps, r, err, idx, synth, dec, val) ==
    [params |-> ps, r |-> r, err |-> err, reqDataIdx |-> idx,
     ctxSynth |-> synth, decoded |-> dec, validated |-> val]

\* lambdaGetParams, with the body parameter always looked for at index 0
lambdaGetParams_BodyAtZero(r, fv) ==
    LET numIn == Len(fv.in)
        hasCtx == numIn > 0 /\ Implements_contextType(fv.in[1])
        r1 == IF hasCtx THEN [r EXCEPT !.ctx = "lambda"] ELSE r
        reqDataType == fv.in[1]
        decodeErr == GetRequestData(r1, LambdaMaxBytesToParse)
        params0 == [i \in 1 .. numIn |-> IF i = 1 /\ hasCtx THEN CtxValue ELSE ZeroValue]
    IN  IF numIn = 0
        THEN GetParamsResult(params0, r1, NilError, -1, 0, 0, 0)
        ELSE IF decodeErr # NilError
        THEN GetParamsResult(<<>>, r1, decodeErr, 0, IF hasCtx THEN 1 ELSE 0, 1, 0)
        ELSE GetParamsResult([params0 EXCEPT ![1] = BodyValue(reqDataType)],
                             r1, NilError, 0, IF hasCtx THEN 1 ELSE 0, 1, 0)

\* lambdaGetParams, with a failed validation not stopping the request
lambdaGetParams_ValidationIgnored(r, fv) ==
    LET numIn == Len(fv.in)
        hasCtx == numIn > 0 /\ Implements_contextType(fv.in[1])
        r1 == IF hasCtx THEN [r EXCEPT !.ctx = "lambda"] ELSE r
        reqDataIdx == IF hasCtx THEN 1 ELSE 0
        hasBody == numIn > 0 /\ reqDataIdx < numIn
        reqDataType == fv.in[reqDataIdx + 1]
        decodeErr == GetRequestData(r1, LambdaMaxBytesToParse)
        toValidate == LambdaValidator /\ KindOf(DecodeTargetType(reqDataType)) = "Struct"
        synth == IF hasCtx THEN 1 ELSE 0
        params0 == [i \in 1 .. numIn |-> IF i = 1 /\ hasCtx THEN CtxValue ELSE ZeroValue]
    IN  IF ~hasBody
        THEN GetParamsResult(params0, r1, NilError, IF numIn > 0 THEN reqDataIdx ELSE -1,
                             synth, 0, 0)
        ELSE IF decodeErr # NilError
        THEN GetParamsResult(<<>>, r1, decodeErr, reqDataIdx, synth, 1, 0)
        ELSE GetParamsResult([params0 EXCEPT ![reqDataIdx + 1] = BodyValue(reqDataType)],
                             r1, NilError, reqDataIdx, synth, 1, IF toValidate THEN 1 ELSE 0)

\* lambdaGetParams(w, r, f): params, the request to go on with, err; and
\* what it called on the way (NewRequestCtx, GetRequestData, validate.Struct).
lambdaGetParams(r, fv) ==
    LET numIn == Len(fv.in)
        hasCtx == numIn > 0 /\ Implements_contextType(fv.in[1])
        r1 == IF hasCtx THEN [r EXCEPT !.ctx = "lambda"] ELSE r
        reqDataIdx == IF hasCtx THEN 1 ELSE 0
        hasBody == numIn > 0 /\ reqDataIdx < numIn
        reqDataType == fv.in[reqDataIdx + 1]
        decodeErr == GetRequestData(r1, LambdaMaxBytesToParse)
        toValidate == LambdaValidator /\ KindOf(DecodeTargetType(reqDataType)) = "Struct"
        validErr == validate_Struct(r1)
        synth == IF hasCtx THEN 1 ELSE 0
        params0 == [i \in 1 .. numIn |-> IF i = 1 /\ hasCtx THEN CtxValue ELSE ZeroValue]
    IN  IF ~hasBody
        THEN GetParamsResult(params0, r1, NilError, IF numIn > 0 THEN reqDataIdx ELSE -1,
                             synth, 0, 0)
        ELSE IF decodeErr # NilError
        THEN GetParamsResult(<<>>, r1, decodeErr, reqDataIdx, synth, 1, 0)
        ELSE IF toValidate /\ validErr # NilError
        THEN GetParamsResult(<<>>, r1, NewError(validErr, StatusUnprocessableEntity),
                             reqDataIdx, synth, 1, 1)
        ELSE GetParamsResult([params0 EXCEPT ![reqDataIdx + 1] = BodyValue(reqDataType)],
                             r1, NilError, reqDataIdx, synth, 1, IF toValidate THEN 1 ELSE 0)

\* ---- LambdaWrap ----
LambdaWrap_AlwaysWraps(fv) ==
    IF fv.kind = "nonfunc" THEN "panic" ELSE "closure"

\* LambdaWrap(f): "same" = f itself is returned, "closure" = the adapting
\* closure is returned, "panic" = panic("function expected").
LambdaWrap(fv) ==
    IF fv.kind = "native" THEN "same"
    ELSE IF fv.kind = "handlerFunc" THEN "same"
    ELSE IF fv.kind # "func" THEN "panic"
    ELSE "closure"

\* SendResp(w, r, err, nil) of the closure's error path
SendOnError_Missing(sofar, r, err) == sofar

SendOnError(sofar, r, err) ==
    Append(sofar, [err |-> err, data |-> GoNil, ctx |-> r.ctx, afterReturn |-> FALSE])

FreshHist == [ctxSynth |-> 0, decoded |-> 0, validated |-> 0, invoked |-> 0,
              returned |-> 0, native |-> 0, reqDataIdx |-> -1, failure |-> "none"]
FreshReq == [body |-> [len |-> 0, wellFormed |-> TRUE, valid |-> TRUE], ctx |-> "background"]

\* The function's choices of a status to record through its context.
StatusChoices == {-1, 0, 201}

\* ---- actions ----

\* The package variables are set at startup.
Configure(maxBytes, validator) ==
    /\ pc = "start"
    /\ LambdaMaxBytesToParse' = maxBytes
    /\ LambdaValidator' = validator
    /\ UNCHANGED <<pc, f, wrapped, req, lambdaStatus, params, res, sent, hist, tracerVars>>

CallLambdaWrap(fv) ==
    /\ pc = "start"
    /\ f' = fv
    /\ wrapped' = (LambdaWrap(fv) = "closure")
    /\ pc' = IF LambdaWrap(fv) = "panic" THEN "halted" ELSE "ready"
    /\ UNCHANGED <<LambdaMaxBytesToParse, LambdaValidator, req, lambdaStatus, params, res,
                   sent, hist, tracerVars>>

\* A request served by f itself (LambdaWrap returned it unchanged).
ServeNative(body) ==
    /\ pc = "ready"
    /\ ~wrapped
    /\ req' = [body |-> body, ctx |-> "background"]
    /\ hist' = [FreshHist EXCEPT !.native = 1, !.invoked = 1, !.returned = 1]
    /\ pc' = "done"
    /\ UNCHANGED <<LambdaMaxBytesToParse, LambdaValidator, f, wrapped, lambdaStatus, params,
                   res, sent, tracerVars>>

\* The closure, lines 148-152: lambdaGetParams, and SendResp + return on error.
ServeGetParams(body) ==
    /\ pc = "ready"
    /\ wrapped
    /\ LET got == lambdaGetParams([body |-> body, ctx |-> "background"], f)
       IN  /\ req' = got.r
           /\ params' = got.params
           /\ lambdaStatus' = 0
           /\ hist' = [FreshHist EXCEPT !.ctxSynth = got.ctxSynth, !.decoded = got.decoded,
                                        !.validated = got.validated,
                                        !.reqDataIdx = got.reqDataIdx,
                                        !.failure = IF got.err = NilError THEN "none"
                                                    ELSE IF got.err.kind = "decode"
                                                    THEN "decode" ELSE "validation"]
           /\ IF got.err # NilError
              THEN /\ sent' = SendOnError(sent, got.r, got.err)
                   /\ pc' = "done"
              ELSE /\ sent' = sent
                   /\ pc' = "call"
    /\ UNCHANGED <<LambdaMaxBytesToParse, LambdaValidator, f, wrapped, res, tracerVars>>

CallArgsOk == \A i \in 1 .. Len(params) : params[i] # ZeroValue

\* reflect.ValueOf(f).Call(params) panics on a zero Value argument.
CallPanicsOnZeroValue ==
    /\ pc = "call"
    /\ ~CallArgsOk
    /\ pc' = "panicked"
    /\ hist' = [hist EXCEPT !.failure = "reflect"]
    /\ UNCHANGED <<LambdaMaxBytesToParse, LambdaValidator, f, wrapped, req, lambdaStatus,
                   params, res, sent, tracerVars>>

\* The function runs and panics.
CallFunctionPanics ==
    /\ pc = "call"
    /\ CallArgsOk
    /\ pc' = "panicked"
    /\ hist' = [hist EXCEPT !.invoked = 1, !.failure = "function"]
    /\ UNCHANGED <<LambdaMaxBytesToParse, LambdaValidator, f, wrapped, req, lambdaStatus,
                   params, res, sent, tracerVars>>

\* The function runs, may record a status through its context, and returns.
CallReturns(rs, status) ==
    /\ pc = "call"
    /\ CallArgsOk
    /\ rs \in ResultsOf(f.out)
    /\ res' = rs
    /\ lambdaStatus' = IF req.ctx = "lambda" THEN status ELSE lambdaStatus
    /\ hist' = [hist EXCEPT !.invoked = 1, !.returned = 1]
    /\ pc' = "returned"
    /\ UNCHANGED <<LambdaMaxBytesToParse, LambdaValidator, f, wrapped, req, params, sent,
                   tracerVars>>

\* The closure, line 154: lambdaHandleRes and its SendResp.
HandleRes ==
    /\ pc = "returned"
    /\ LET out == lambdaHandleRes(req, res)
       IN  sent' = Append(sent, [err |-> out.err, data |-> out.data, ctx |-> req.ctx,
                                 afterReturn |-> TRUE])
    /\ pc' = "done"
    /\ UNCHANGED <<LambdaMaxBytesToParse, LambdaValidator, f, wrapped, req, lambdaStatus,
                   params, res, hist, tracerVars>>

\* The server takes the next request (a panic is recovered per request).
NextRequest ==
    /\ pc \in {"done", "panicked"}
    /\ pc' = "ready"
    /\ req' = FreshReq
    /\ lambdaStatus' = 0
    /\ params' = <<>>
    /\ res' = <<>>
    /\ sent' = <<>>
    /\ hist' = FreshHist
    /\ UNCHANGED <<LambdaMaxBytesToParse, LambdaValidator, f, wrapped, tracerVars>>

InitLambda == LambdaIdle /\ TracerInit /\ ~OtelEnabled

NextLambda ==
    \/ \E m \in 0 .. MaxBodyLen, v \in BOOLEAN : Configure(m, v)
    \/ \E fv \in FuncValues : CallLambdaWrap(fv)
    \/ \E b \in Bodies : ServeNative(b)
    \/ \E b \in Bodies : ServeGetParams(b)
    \/ CallPanicsOnZeroValue
    \/ CallFunctionPanics
    \/ \E rs \in ResultsOf(f.out), st \in StatusChoices : CallReturns(rs, st)
    \/ HandleRes
    \/ NextRequest

SpecLambda == InitLambda /\ [][NextLambda]_vars

(***************************************************************************)
(*                       Claims about package tracer                       *)
(***************************************************************************)

\* No well-formed trace header of either kind in r.
NoTraceHeader(r) == r.b3 <= 0 /\ r.tp <= 0

\* C1: NewFromRequestOrRandom never returns nil, whatever the request and
\* the value of OtelEnabled; and when NewFromRequest returns nil for the
\* request (in particular when it carries no well-formed trace header), the
\* tracer returned reports IsReceived() = FALSE.
C1_OrRandomNeverNil ==
    tlast.op = "NewFromRequestOrRandom" =>
        /\ ~tlast.t.isNil
        /\ tlast.fromReq.isNil => ~Tracer_IsReceived(tlast.t)
        /\ NoTraceHeader(tlast.r) => ~Tracer_IsReceived(tlast.t)

\* C1 witness: the flag is on, the request carries a B3 header the SDK does
\* not extract, and a random tracer came back.
C1_Witness ==
    /\ tlast.op = "NewFromRequestOrRandom"
    /\ tlast.flag
    /\ tlast.r.b3 > 0
    /\ tlast.fromReq.isNil
    /\ ~tlast.t.isNil
    /\ ~Tracer_IsReceived(tlast.t)

\* C2: NewFromRequest resolves in a fixed priority order chosen by the flag
\* read at call time.  Flag on: only the SDK extraction is used, and no SDK
\* context means nil.  Flag off: the B3 result if B3 parsing finds one, else
\* the traceparent result if that finds one, else nil; so with both headers
\* the B3 context is returned.  Every non-nil result is marked received.
C2_Priority ==
    tlast.op = "NewFromRequest" =>
        LET r == tlast.r
            t == tlast.t
        IN  /\ tlast.flag =>
                  /\ tlast.consulted = <<"otel">>
                  /\ t.isNil \/ t.traceData.enc = "otel"
                  /\ t.isNil <=> IsNil(traceotel_NewFromRequest(r))
            /\ ~tlast.flag =>
                  /\ r.b3 > 0 =>
                        /\ ~t.isNil
                        /\ t.traceData.enc = "b3"
                        /\ t.traceData.traceID = r.b3
                        /\ tlast.consulted = <<"b3">>
                  /\ (r.b3 <= 0 /\ r.tp > 0) =>
                        /\ ~t.isNil
                        /\ t.traceData.enc = "traceparent"
                        /\ t.traceData.traceID = r.tp
                        /\ tlast.consulted = <<"b3", "traceparent">>
                  /\ (r.b3 <= 0 /\ r.tp <= 0) => t.isNil
            /\ ~t.isNil => t.received

\* C2 witness: flag off, both headers well-formed with different ids, and
\* the B3 context came back.
C2_Witness ==
    /\ tlast.op = "NewFromRequest"
    /\ ~tlast.flag
    /\ tlast.r.b3 > 0
    /\ tlast.r.tp > 0
    /\ tlast.r.b3 # tlast.r.tp
    /\ tlast.t.traceData.enc = "b3"

\* The encoding the held tracer was created with, from the history.
CreatedEnc ==
    IF created.flag THEN "otel"
    ELSE IF created.origin = "random" THEN "b3"
    ELSE IF created.r.b3 > 0 THEN "b3" ELSE "traceparent"

\* headers `out` are `before` with id written in encoding enc
WrittenIn(enc, id, before, out) ==
    /\ enc = "b3" => out.b3 = id /\ out.tp = before.tp
    /\ enc = "traceparent" => out.tp = id /\ out.b3 = before.b3
    /\ enc = "otel" => out.b3 = id /\ out.tp = id

\* C8: a tracer keeps the encoding it was created with.  The encoding is
\* chosen from OtelEnabled at creation (NewRandom: SDK-based if on, B3 if
\* off, never traceparent), and after any later changes of the flag
\* SetHeader, Span, TraceID, SpanID and IsReceived still operate in the
\* original encoding, whatever the flag is now.
C8_KeepsEncoding ==
    ~tracer.isNil =>
        /\ tracer.traceData.enc = CreatedEnc
        /\ created.origin = "random" => tracer.traceData.enc \in {"otel", "b3"}
        /\ tlast.op = "SetHeader" =>
              WrittenIn(CreatedEnc, created.traceID, tlast.r, tlast.out)
        /\ tlast.op = "Span" =>
              /\ WrittenIn(CreatedEnc, created.traceID, tlast.r, tlast.out.req)
              /\ tlast.out.log.enc = CreatedEnc
              /\ tlast.out.log.traceID = created.traceID
        /\ tlast.op = "TraceID" =>
              tlast.out = [enc |-> CreatedEnc, id |-> created.traceID]
        /\ tlast.op = "SpanID" =>
              tlast.out = [enc |-> CreatedEnc, id |-> created.spanID]
        /\ tlast.op = "IsReceived" => (tlast.out <=> created.origin = "request")

\* C8 witness: SetHeader on a random B3 tracer after the flag was turned on.
C8_Witness ==
    /\ tlast.op = "SetHeader"
    /\ created.origin = "random"
    /\ ~created.flag
    /\ tlast.flag
    /\ tlast.out.b3 = created.traceID
    /\ tlast.out.tp # created.traceID

(***************************************************************************)
(*                        Claims about LambdaWrap                          *)
(***************************************************************************)

\* The declared shape of f, read off its parameter and result lists.
HasCtx(fv) == Len(fv.in) > 0 /\ fv.in[1] = "ctx"
BodyIdx(fv) == IF HasCtx(fv) THEN 1 ELSE 0
HasBodyParam(fv) == Len(fv.in) > BodyIdx(fv)
BodyType(fv) == fv.in[BodyIdx(fv) + 1]
Recognized(fv) ==
    /\ Len(fv.in) <= BodyIdx(fv) + 1
    /\ Len(fv.out) <= 2
    /\ Len(fv.out) = 2 => fv.out[2] = "error"

\* A request has been taken by the adapting closure.
Served == wrapped /\ pc \in {"call", "returned", "done", "panicked"}
\* ... and the function has returned and its results have been handled.
Answered == wrapped /\ pc = "done" /\ hist.returned = 1

DecodeFails(b) ==
    \/ LambdaMaxBytesToParse > 0 /\ b.len > LambdaMaxBytesToParse
    \/ b.len > 0 /\ ~b.wellFormed
ValidationFails(fv, b) ==
    LambdaValidator /\ BodyType(fv) \in {"struct", "*struct"} /\ ~b.valid

\* C3: for a function with a body parameter, if decoding the body fails
\* (a body longer than a non-zero LambdaMaxBytesToParse included), or
\* validation is on, the decoded value is a struct and it fails validation,
\* then the function is never invoked and one error response is emitted;
\* a validation failure is emitted with status 422.
C3_NoInvokeOnBadBody ==
    (Served /\ HasBodyParam(f)
       /\ (DecodeFails(req.body) \/ ValidationFails(f, req.body))) =>
        /\ hist.invoked = 0
        /\ pc = "done"
        /\ Len(sent) = 1
        /\ sent[1].err # NilError
        /\ sent[1].data = GoNil
        /\ ~DecodeFails(req.body) =>
              /\ sent[1].err.kind = "restful"
              /\ sent[1].err.status = 422

\* C3 witness: a well-formed body that fails validation was answered 422
\* without the function running.
C3_Witness ==
    /\ Served
    /\ HasBodyParam(f)
    /\ ~DecodeFails(req.body)
    /\ ValidationFails(f, req.body)
    /\ hist.invoked = 0
    /\ Len(sent) = 1
    /\ sent[1].err.status = 422

ErrSlot == IF Len(res) = 1 THEN res[1] ELSE res[2]
ReturnedError ==
    /\ Len(res) >= 1
    /\ ErrSlot.isErr
    /\ ~(ErrSlot.kind = "Interface" /\ ErrSlot.isNil)
Override == req.ctx = "lambda" /\ lambdaStatus > 0

\* C4: status selection once the function has returned, for zero, one and
\* two return values: a non-nil error returned (as the only or as the second
\* value) is what SendResp gets, whatever status override is recorded; with
\* no error and an override (Status > 0) recorded on the synthesized context
\* the response carries that status; otherwise the error given is nil.  A
\* func() error returning nil without override gets nil error and no body.
C4_StatusSelection ==
    Answered =>
        LET e == sent[1].err
        IN  /\ ReturnedError =>
                  /\ e.kind = "user"
                  /\ e.value.id = ErrSlot.id
                  /\ e.value.isErr
            /\ (~ReturnedError /\ Override) =>
                  e = [kind |-> "restful", cause |-> NilError, status |-> lambdaStatus]
            /\ (~ReturnedError /\ ~Override) => e = NilError
            /\ (f.out = <<"error">> /\ ~ReturnedError /\ ~Override) =>
                  sent[1].data = GoNil

\* C4 witness: (payload, error) returned with a non-nil error while a status
\* override is recorded; the error went out.
C4_Witness ==
    /\ Answered
    /\ Len(res) = 2
    /\ ReturnedError
    /\ Override
    /\ sent[1].err.kind = "user"

\* v as a payload is the value d: same indirection, nilness and content
SameValue(d, v) ==
    /\ d # GoNil
    /\ d.depth = v.depth
    /\ d.isNil = v.isNil
    /\ d.id = v.id
    /\ d.isErr = v.isErr

\* C5: payload selection once the function has returned.  Two values: the
\* first is the body, unwrapped exactly one level when it is a pointer, a
\* nil pointer giving a nil payload.  One value: an error-shaped value gives
\* no payload, any other value is the payload unchanged.  Zero values: no
\* payload.  The payload depends on the payload slot only.
C5_PayloadSelection ==
    Answered =>
        LET d == sent[1].data
            v == res[1]
        IN  /\ Len(res) = 0 => d = GoNil
            /\ Len(res) = 1 =>
                  IF v.isErr \/ (v.kind = "Interface" /\ v.isNil)
                  THEN d = GoNil
                  ELSE SameValue(d, v)
            /\ Len(res) >= 2 =>
                  IF v.kind = "Ptr"
                  THEN IF v.isNil
                       THEN d = GoNil
                       ELSE /\ d # GoNil
                            /\ d.depth = v.depth - 1
                            /\ ~d.isNil
                            /\ d.id = v.id
                  ELSE IF v.kind = "Interface" /\ v.isNil
                  THEN d = GoNil
                  ELSE SameValue(d, v)

\* C5 witness: (**T, error) returned with a non-nil pointer and a non-nil
\* error; the payload is the *T it points to.
C5_Witness ==
    /\ Answered
    /\ Len(res) = 2
    /\ res[1].depth = 2
    /\ ~res[1].isNil
    /\ ReturnedError
    /\ sent[1].data.depth = 1
    /\ sent[1].data.kind = "Ptr"

\* C6: programming errors halt instead of producing a response: LambdaWrap
\* of a value that is not a function panics at adaptation time, and a
\* function whose signature is not ([context], [body]) -> ([payload],
\* [error]) - more parameters, more than two results, a second result that
\* is not an error - panics and no response is emitted for it.
C6_BadShapeHalts ==
    /\ f.kind = "nonfunc" => pc = "halted"
    /\ (f.kind = "func" /\ ~Recognized(f)) =>
          /\ pc # "done"
          /\ Len(sent) = 0

\* C7: argument assembly.  Iff the first declared parameter is a context, a
\* freshly synthesized context is argument 0, the request used from then on
\* (decode, result handling, response) carries it, and the body parameter
\* is index 1; otherwise the body parameter is index 0.  The body is decoded
\* exactly when a parameter remains after the optional context.
C7_ArgumentAssembly ==
    Served =>
        /\ hist.ctxSynth = (IF HasCtx(f) THEN 1 ELSE 0)
        /\ req.ctx = (IF HasCtx(f) THEN "lambda" ELSE "background")
        /\ \A i \in 1 .. Len(sent) : sent[i].ctx = req.ctx
        /\ hist.decoded = (IF HasBodyParam(f) THEN 1 ELSE 0)
        /\ HasBodyParam(f) => hist.reqDataIdx = (IF HasCtx(f) THEN 1 ELSE 0)
        /\ hist.failure \notin {"decode", "validation"} =>
              /\ Len(params) = Len(f.in)
              /\ HasCtx(f) => params[1] = CtxValue
              /\ HasBodyParam(f) =>
                    params[BodyIdx(f) + 1] = [kind |-> "body", type |-> BodyType(f)]
              /\ \A i \in 1 .. Len(params) :
                    (params[i].kind = "ctx") <=> (i = 1 /\ HasCtx(f))

\* C7 witness: a (context, body) function about to be called with the
\* context at 0 and the decoded body at 1.
C7_Witness ==
    /\ Served
    /\ pc = "call"
    /\ HasCtx(f)
    /\ HasBodyParam(f)
    /\ params[1].kind = "ctx"
    /\ params[2].kind = "body"
    /\ hist.decoded = 1

\* C9: LambdaWrap returns a func(http.ResponseWriter, *http.Request) or an
\* http.HandlerFunc unchanged: serving a request through what it returned
\* is a call of the original function, with no context synthesis, body
\* decoding, validation or response emission by the adapter.
C9_PassThrough ==
    f.kind \in {"native", "handlerFunc"} =>
        /\ ~wrapped
        /\ pc # "halted"
        /\ pc = "done" =>
              /\ hist.native = 1
              /\ hist.invoked = 1
              /\ hist.ctxSynth = 0
              /\ hist.decoded = 0
              /\ hist.validated = 0
              /\ Len(sent) = 0
              /\ req.ctx = "background"

\* C9 witness: a request served by an http.HandlerFunc given to LambdaWrap.
C9_Witness ==
    /\ f.kind = "handlerFunc"
    /\ pc = "done"
    /\ hist.native = 1
    /\ Len(sent) = 0

\* C10 as stated: for every request served by an adapted handler whose
\* wrapped function does not panic, SendResp is called exactly once.
C10_OnceUnlessFunctionPanics ==
    (wrapped /\ pc \in {"done", "panicked"} /\ hist.failure # "function") =>
        Len(sent) = 1

\* C10, amended: for every request served by an adapted handler where
\* neither the reflective call (reflect.Value.Call) nor the wrapped function
\* panics, SendResp is called exactly once: once with the decode/validation
\* error and no payload, the function not invoked, or once after the
\* function has returned; never twice, and never before the function
\* returns.
C10_OnceUnlessPanic ==
    wrapped =>
        /\ Len(sent) <= 1
        /\ pc \in {"ready", "call", "returned", "panicked"} => Len(sent) = 0
        /\ pc = "done" =>
              /\ Len(sent) = 1
              /\ \/ /\ hist.invoked = 0
                    /\ hist.failure \in {"decode", "validation"}
                    /\ sent[1].err # NilError
                    /\ sent[1].data = GoNil
                    /\ ~sent[1].afterReturn
                 \/ /\ hist.invoked = 1
                    /\ hist.returned = 1
                    /\ hist.failure = "none"
                    /\ sent[1].afterReturn

\* C10 witness: a request whose body failed to decode, answered once
\* without the function running.
C10_Witness ==
    /\ wrapped
    /\ pc = "done"
    /\ hist.failure = "decode"
    /\ hist.invoked = 0
    /\ Len(sent) = 1

=============================================================================
